---- MODULE Spec2Model ----
(***************************************************************************)
(* forge_provider::Client (crates/forge_provider/src/client.rs): the       *)
(* provider facade with its shared model cache behind a tokio RwLock, the  *)
(* refresh protocol, the cache-first model lookup and the retry-classified *)
(* chat stream.  Each caller is a task running one call at a time against *)
(* one shared Client (its clones share the same Arcs).                     *)
(***************************************************************************)
EXTENDS Naturals, Sequences, FiniteSets

\* ---------------------------------------------------------------- bounds
NumCallers == 2
MaxModels == 2
MaxStream == 3

Callers == 1..NumCallers

\* ------------------------------------------------------------ data model
ModelIds == {"gpt-x", "gpt-y"}
Metas == {"v1", "v2"}
Model == [id : ModelIds, meta : Metas]
\* The models the backend reports: gpt-x in two versions of its metadata, gpt-y in one
Catalogue == {m \in Model : m.id = "gpt-x" \/ m.meta = "v1"}

Causes == {"network", "auth"}
Messages == {"chunk"}

Providers == {"OpenAI", "Copilot", "Anthropic"}
RetryConfigs == {{"network"}}

RECURSIVE SeqsUpTo(_, _)
SeqsUpTo(S, n) ==
    IF n = 0 THEN {<<>>}
    ELSE LET shorter == SeqsUpTo(S, n - 1)
         IN shorter \cup {Append(s, x) : s \in {t \in shorter : Len(t) = n - 1}, x \in S}

\* What the backend's list_models may answer with on success.
ModelLists == SeqsUpTo(Catalogue, MaxModels)

\* anyhow::Result<A>: Ok(value) or Err(error).  An error carries its cause,
\* whether it is the classifier's typed error, the retry hint, and how many
\* times the classifier has wrapped it.
NoError == [cause |-> "none", classified |-> FALSE, retryable |-> FALSE, wraps |-> 0]
RawError(c) == [cause |-> c, classified |-> FALSE, retryable |-> FALSE, wraps |-> 0]
Ok(v) == [ok |-> TRUE, val |-> v, err |-> NoError]
Err(e) == [ok |-> FALSE, val |-> <<>>, err |-> e]
NoResult == [ok |-> TRUE, val |-> <<>>, err |-> NoError]

\* Option<Model> as a sequence of length at most one.
None == <<>>
Some(m) == <<m>>

VARIABLES
    provider,       \* the Provider value Client::new was given
    inner,          \* Client.inner: the backend variant selected by new
    retry_config,   \* Client.retry_config
    models_cache,   \* Client.models_cache: the HashMap, a set of [key, value]
    writer,         \* the caller holding the RwLock's write guard, or 0
    readers,        \* the callers holding a read guard
    waiters,        \* the RwLock's FIFO queue of callers waiting for a guard
    pc,             \* each caller's position
    op,             \* each caller's current call: [kind, id]
    result,         \* the backend's answer to the caller's list_models / chat
    models,         \* refresh_models' local `models`
    idx,            \* position of the `for model in &models` loop
    ret,            \* what the call returned to its caller
    calls,          \* backend calls the current call has issued
    dispatched,     \* the backend variant the current call was dispatched to
    stream,         \* items the backend's chat stream has yielded so far
    delivered,      \* items the returned stream has handed to the caller
    lastListed,     \* the most recent successful list_models answer, keyed by id
    lastCommitted,  \* the map left by the refresh that released the write guard last
    prev,           \* the previous models() call of a sequential caller
    committer       \* the caller whose refresh released the write guard last, or 0

vars == <<provider, inner, retry_config, models_cache, writer, readers, waiters, pc,
          op, result, models, idx, ret, calls, dispatched, stream, delivered,
          lastListed, lastCommitted, prev, committer>>

\* ------------------------------------------------------------ HashMap
EmptyMap == {}
Keys(c) == {e.key : e \in c}

\* (mutant) clear() left out: the new models are merged into the old map
CacheClearNothing(c) == c

\* (mutant) one entry evicted instead of the whole map
CacheClearOne(c) == IF c = EmptyMap THEN c ELSE c \ {CHOOSE e \in c : TRUE}

\* HashMap::clear
CacheClear(c) == EmptyMap

\* (mutant) the entry filed under the model's metadata instead of its id
CacheInsertByMeta(c, m) == {e \in c : e.key # m.meta} \cup {[key |-> m.meta, value |-> m]}

\* HashMap::insert(model.id.clone(), model.clone()): replaces an entry of the same key
CacheInsert(c, m) == {e \in c : e.key # m.id} \cup {[key |-> m.id, value |-> m]}

\* (mutant) a lookup that never finds its key
CacheGetNever(c, id) == None

\* HashMap::get
CacheGet(c, id) ==
    IF id \in Keys(c) THEN Some((CHOOSE e \in c : e.key = id).value) ELSE None

\* The map a whole clear-and-repopulate pass leaves: every model of the list
\* inserted in order into the cleared map.
RECURSIVE InsertAll(_, _)
InsertAll(c, list) ==
    IF list = <<>> THEN c
    ELSE InsertAll(CacheInsert(c, Head(list)), Tail(list))

\* (mutant) rfind in place of find: the last match
RECURSIVE FindLast(_, _)
FindLast(list, id) ==
    IF list = <<>> THEN None
    ELSE IF FindLast(Tail(list), id) # None THEN FindLast(Tail(list), id)
    ELSE IF Head(list).id = id THEN Some(Head(list))
    ELSE None

\* (mutant) the predicate of find dropped: the first model, whatever its id
FindAny(list, id) == IF list = <<>> THEN None ELSE Some(Head(list))

\* models.into_iter().find(|m| m.id == *model): the first match
RECURSIVE Find(_, _)
Find(list, id) ==
    IF list = <<>> THEN None
    ELSE IF Head(list).id = id THEN Some(Head(list))
    ELSE Find(Tail(list), id)

\* ------------------------------------------------------------ retry
\* crate::retry::into_retry: the classified form of a failure, a wrapper
\* around the failure it was given
IntoRetry(e, cfg) ==
    [cause |-> e.cause, classified |-> TRUE, retryable |-> e.cause \in cfg,
     wraps |-> e.wraps + 1]

\* (mutant) the error handed on as the backend raised it
RetryUnclassified(r) == r

\* (mutant) the classifier run over its own output
RetryTwice(r) ==
    IF r.ok THEN r
    ELSE [r EXCEPT !.err = IntoRetry(IntoRetry(r.err, retry_config), retry_config)]

\* Client::retry: result.map_err(|e| into_retry(e, retry_config))
Retry(r) == IF r.ok THEN r ELSE [r EXCEPT !.err = IntoRetry(r.err, retry_config)]

\* (mutant) the failure swallowed: the function carries on with an empty value
PropagatesNever(r) == FALSE

\* The `?` after retry(...): an Err returns early from the function
Propagates(r) == ~r.ok

\* ------------------------------------------------------------ new
\* (mutant) only the plain OpenAI provider recognised as OpenAI-compatible
SelectInnerOpenAIOnly(prov) == IF prov = "OpenAI" THEN "OpenAICompat" ELSE "Anthropic"

\* match &provider { Provider::OpenAI {..} => OpenAICompat, Provider::Anthropic {..} => Anthropic }
\* Provider::copilot builds a Provider::OpenAI value.
SelectInner(prov) == IF prov = "Anthropic" THEN "Anthropic" ELSE "OpenAICompat"

\* match self.inner.as_ref() { OpenAICompat(provider) => provider.., Anthropic(provider) => provider.. }
Dispatch(variant) == variant

NoOp == [kind |-> "none", id |-> "none"]
NoPrev == [set |-> FALSE, list |-> <<>>, cache |-> EmptyMap]

\* (mutant) a cache seeded with default models at construction
InitWarm ==
    /\ provider \in Providers
    /\ inner = SelectInner(provider)
    /\ retry_config \in RetryConfigs
    /\ models_cache = {[key |-> m.id, value |-> m] : m \in {n \in Catalogue : n.meta = "v1"}}
    /\ writer = 0
    /\ readers = {}
    /\ waiters = <<>>
    /\ pc = [p \in Callers |-> "idle"]
    /\ op = [p \in Callers |-> NoOp]
    /\ result = [p \in Callers |-> NoResult]
    /\ models = [p \in Callers |-> <<>>]
    /\ idx = [p \in Callers |-> 0]
    /\ ret = [p \in Callers |-> NoResult]
    /\ calls = [p \in Callers |-> 0]
    /\ dispatched = [p \in Callers |-> "none"]
    /\ stream = [p \in Callers |-> <<>>]
    /\ delivered = [p \in Callers |-> <<>>]
    /\ lastListed = EmptyMap
    /\ lastCommitted = EmptyMap
    /\ prev = NoPrev
    /\ committer = 0

\* Client::new: the cache starts as HashMap::new()
Init ==
    /\ provider \in Providers
    /\ inner = SelectInner(provider)
    /\ retry_config \in RetryConfigs
    /\ models_cache = EmptyMap
    /\ writer = 0
    /\ readers = {}
    /\ waiters = <<>>
    /\ pc = [p \in Callers |-> "idle"]
    /\ op = [p \in Callers |-> NoOp]
    /\ result = [p \in Callers |-> NoResult]
    /\ models = [p \in Callers |-> <<>>]
    /\ idx = [p \in Callers |-> 0]
    /\ ret = [p \in Callers |-> NoResult]
    /\ calls = [p \in Callers |-> 0]
    /\ dispatched = [p \in Callers |-> "none"]
    /\ stream = [p \in Callers |-> <<>>]
    /\ delivered = [p \in Callers |-> <<>>]
    /\ lastListed = EmptyMap
    /\ lastCommitted = EmptyMap
    /\ prev = NoPrev
    /\ committer = 0

\* ------------------------------------------------------------ RwLock
\* tokio::sync::RwLock grants guards in FIFO order: a read guard while no
\* write guard is out, a write guard while no guard at all is out.
\* (mutant) a read guard handed out while a write guard is out
CanReadAlways(w, rs) == TRUE

\* (mutant) a mutex in place of the RwLock: one guard at a time
CanReadExclusive(w, rs) == w = 0 /\ rs = {}

CanRead(w, rs) == w = 0

\* (mutant) a write guard handed out while other guards are out
CanWriteAlways(w, rs) == TRUE

CanWrite(w, rs) == w = 0 /\ rs = {}

cfgVars == <<provider, inner, retry_config>>
lockVars == <<writer, readers, waiters>>
chatVars == <<stream, delivered>>
histVars == <<lastListed, lastCommitted, prev, committer>>

BackendListAnswers == {Ok(l) : l \in ModelLists} \cup {Err(RawError(c)) : c \in Causes}
BackendChatAnswers == {Ok(<<>>)} \cup {Err(RawError(c)) : c \in Causes}
\* what an established stream may yield: a message, or a transient failure
BackendItems == {Ok(m) : m \in Messages} \cup {Err(RawError("network"))}

\* ------------------------------------------------------------ models()
\* (mutant) models() answered from a warm cache without asking the backend
ModelsStartCached(p) ==
    /\ pc[p] = "idle"
    /\ pc' = [pc EXCEPT ![p] = IF models_cache = EmptyMap THEN "refresh_call" ELSE "done"]
    /\ op' = [op EXCEPT ![p] = [kind |-> "models", id |-> "none"]]
    /\ UNCHANGED <<cfgVars, models_cache, lockVars, result, models, idx, ret, calls, dispatched,
                   chatVars, histVars>>

\* Client::models: self.refresh_models().await and nothing else, so a direct
\* call of the public refresh_models is this same call
ModelsStart(p) ==
    /\ pc[p] = "idle"
    /\ pc' = [pc EXCEPT ![p] = "refresh_call"]
    /\ op' = [op EXCEPT ![p] = [kind |-> "models", id |-> "none"]]
    /\ UNCHANGED <<cfgVars, models_cache, lockVars, result, models, idx, ret, calls, dispatched,
                   chatVars, histVars>>

\* ------------------------------------------------------------ model(id)
\* Client::model: self.models_cache.read().await is requested
ModelStart(p, id) ==
    /\ pc[p] = "idle"
    /\ pc' = [pc EXCEPT ![p] = "read_wait"]
    /\ op' = [op EXCEPT ![p] = [kind |-> "model", id |-> id]]
    /\ waiters' = Append(waiters, p)
    /\ UNCHANGED <<cfgVars, models_cache, writer, readers, result, models, idx, ret,
                   calls, dispatched, chatVars, histVars>>

\* the read guard is granted
AcquireRead(p) ==
    /\ pc[p] = "read_wait"
    /\ waiters # <<>> /\ Head(waiters) = p
    /\ CanRead(writer, readers)
    /\ readers' = readers \cup {p}
    /\ waiters' = Tail(waiters)
    /\ pc' = [pc EXCEPT ![p] = "read_held"]
    /\ UNCHANGED <<cfgVars, models_cache, writer, op, result, models, idx, ret, calls, dispatched,
                   chatVars, histVars>>

\* if let Some(model) = cache.get(model) { return Ok(Some(model.clone())) }
ModelHit(p) ==
    /\ pc[p] = "read_held"
    /\ CacheGet(models_cache, op[p].id) # None
    /\ ret' = [ret EXCEPT ![p] = Ok(CacheGet(models_cache, op[p].id))]
    /\ readers' = readers \ {p}
    /\ pc' = [pc EXCEPT ![p] = "done"]
    /\ UNCHANGED <<cfgVars, models_cache, writer, waiters, op, result, models, idx,
                   calls, dispatched, chatVars, histVars>>

\* (mutant) the lookup's answer ignored: every model(id) goes on to refresh
ModelMissAlways(p) ==
    /\ pc[p] = "read_held"
    /\ readers' = readers \ {p}
    /\ pc' = [pc EXCEPT ![p] = "refresh_call"]
    /\ UNCHANGED <<cfgVars, models_cache, writer, waiters, op, result, models, idx,
                   ret, calls, dispatched, chatVars, histVars>>

\* (mutant) the read guard kept across the miss path
ModelMissHolding(p) ==
    /\ pc[p] = "read_held"
    /\ CacheGet(models_cache, op[p].id) = None
    /\ pc' = [pc EXCEPT ![p] = "refresh_call"]
    /\ UNCHANGED <<cfgVars, models_cache, lockVars, op, result, models, idx,
                   ret, calls, dispatched, chatVars, histVars>>

\* the lookup found nothing: the read guard is dropped at the end of the block
ModelMiss(p) ==
    /\ pc[p] = "read_held"
    /\ CacheGet(models_cache, op[p].id) = None
    /\ readers' = readers \ {p}
    /\ pc' = [pc EXCEPT ![p] = "refresh_call"]
    /\ UNCHANGED <<cfgVars, models_cache, writer, waiters, op, result, models, idx,
                   ret, calls, dispatched, chatVars, histVars>>

\* ------------------------------------------------------------ refresh_models
\* provider.models() is called on the selected backend
ListModelsCall(p) ==
    /\ pc[p] = "refresh_call"
    /\ inner \in {"OpenAICompat", "Anthropic"}
    /\ calls' = [calls EXCEPT ![p] = @ + 1]
    /\ dispatched' = [dispatched EXCEPT ![p] = Dispatch(inner)]
    /\ pc' = [pc EXCEPT ![p] = "refresh_await"]
    /\ UNCHANGED <<cfgVars, models_cache, lockVars, op, result, models, idx, ret,
                   chatVars, histVars>>

\* (mutant) a failed list_models silently tried once more before it is reported
ListModelsAnswerRetrying(p, r) ==
    /\ pc[p] = "refresh_await"
    /\ result' = [result EXCEPT ![p] = r]
    /\ lastListed' = IF r.ok THEN InsertAll(EmptyMap, r.val) ELSE lastListed
    /\ IF Propagates(Retry(r))
       THEN /\ IF calls[p] < 2
               THEN pc' = [pc EXCEPT ![p] = "refresh_call"] /\ UNCHANGED ret
               ELSE /\ ret' = [ret EXCEPT ![p] = Retry(r)]
                    /\ pc' = [pc EXCEPT ![p] = "done"]
            /\ UNCHANGED models
       ELSE /\ models' = [models EXCEPT ![p] = Retry(r).val]
            /\ pc' = [pc EXCEPT ![p] = "write_request"]
            /\ UNCHANGED ret
    /\ UNCHANGED <<cfgVars, models_cache, lockVars, op, idx, calls, dispatched, chatVars,
                   lastCommitted, prev, committer>>

\* the backend answers r; let models = self.retry(r)?;
ListModelsAnswer(p, r) ==
    /\ pc[p] = "refresh_await"
    /\ result' = [result EXCEPT ![p] = r]
    /\ lastListed' = IF r.ok THEN InsertAll(EmptyMap, r.val) ELSE lastListed
    /\ IF Propagates(Retry(r))
       THEN /\ ret' = [ret EXCEPT ![p] = Retry(r)]
            /\ pc' = [pc EXCEPT ![p] = "done"]
            /\ UNCHANGED models
       ELSE /\ models' = [models EXCEPT ![p] = Retry(r).val]
            /\ pc' = [pc EXCEPT ![p] = "write_request"]
            /\ UNCHANGED ret
    /\ UNCHANGED <<cfgVars, models_cache, lockVars, op, idx, calls, dispatched, chatVars,
                   lastCommitted, prev, committer>>

\* self.models_cache.write().await is requested; callers run on a
\* multi-threaded runtime, so another caller may get in between the answer
\* and this request
RequestWrite(p) ==
    /\ pc[p] = "write_request"
    /\ waiters' = Append(waiters, p)
    /\ pc' = [pc EXCEPT ![p] = "write_wait"]
    /\ UNCHANGED <<cfgVars, models_cache, writer, readers, op, result, models, idx, ret,
                   calls, dispatched, chatVars, histVars>>

\* the write guard is granted
AcquireWrite(p) ==
    /\ pc[p] = "write_wait"
    /\ waiters # <<>> /\ Head(waiters) = p
    /\ CanWrite(writer, readers)
    /\ writer' = p
    /\ waiters' = Tail(waiters)
    /\ pc' = [pc EXCEPT ![p] = "write_clear"]
    /\ UNCHANGED <<cfgVars, models_cache, readers, op, result, models, idx, ret, calls, dispatched,
                   chatVars, histVars>>

\* cache.clear()
ClearCache(p) ==
    /\ pc[p] = "write_clear"
    /\ models_cache' = CacheClear(models_cache)
    /\ idx' = [idx EXCEPT ![p] = 1]
    /\ pc' = [pc EXCEPT ![p] = "write_insert"]
    /\ UNCHANGED <<cfgVars, lockVars, op, result, models, ret, calls, dispatched, chatVars, histVars>>

\* (mutant) the loop left after its first turn
InsertModelOnce(p) ==
    /\ pc[p] = "write_insert"
    /\ idx[p] <= Len(models[p])
    /\ models_cache' = CacheInsert(models_cache, models[p][idx[p]])
    /\ idx' = [idx EXCEPT ![p] = Len(models[p]) + 1]
    /\ UNCHANGED <<cfgVars, lockVars, pc, op, result, models, ret, calls, dispatched, chatVars,
                   histVars>>

\* one turn of: for model in &models { cache.insert(model.id.clone(), model.clone()) }
InsertModel(p) ==
    /\ pc[p] = "write_insert"
    /\ idx[p] <= Len(models[p])
    /\ models_cache' = CacheInsert(models_cache, models[p][idx[p]])
    /\ idx' = [idx EXCEPT ![p] = @ + 1]
    /\ UNCHANGED <<cfgVars, lockVars, pc, op, result, models, ret, calls, dispatched, chatVars,
                   histVars>>

\* the loop is over and the block ends: the write guard is dropped
ReleaseWriteCore(p) ==
    /\ pc[p] = "write_insert"
    /\ idx[p] > Len(models[p])
    /\ writer' = 0
    /\ idx' = [idx EXCEPT ![p] = 0]
    /\ lastCommitted' = InsertAll(EmptyMap, models[p])
    /\ pc' = [pc EXCEPT ![p] = "refresh_return"]
    /\ UNCHANGED <<cfgVars, models_cache, readers, waiters, op, result, models, ret,
                   calls, dispatched, chatVars, lastListed, prev>>

ReleaseWrite(p) == ReleaseWriteCore(p) /\ UNCHANGED committer

\* refresh_models returns Ok(models) to the caller of models() / refresh_models()
RefreshReturn(p) ==
    /\ pc[p] = "refresh_return"
    /\ op[p].kind = "models"
    /\ ret' = [ret EXCEPT ![p] = Ok(models[p])]
    /\ models' = [models EXCEPT ![p] = <<>>]
    /\ pc' = [pc EXCEPT ![p] = "done"]
    /\ UNCHANGED <<cfgVars, models_cache, lockVars, op, result, idx, calls, dispatched, chatVars,
                   histVars>>

\* model's miss path: Ok(models.into_iter().find(|m| m.id == *model))
ModelReturn(p) ==
    /\ pc[p] = "refresh_return"
    /\ op[p].kind = "model"
    /\ ret' = [ret EXCEPT ![p] = Ok(Find(models[p], op[p].id))]
    /\ models' = [models EXCEPT ![p] = <<>>]
    /\ pc' = [pc EXCEPT ![p] = "done"]
    /\ UNCHANGED <<cfgVars, models_cache, lockVars, op, result, idx, calls, dispatched, chatVars,
                   histVars>>

\* the caller has its answer and is free to call again
FinishCore(p) ==
    /\ pc[p] \in {"done", "stream_end"}
    /\ pc' = [pc EXCEPT ![p] = "idle"]
    /\ op' = [op EXCEPT ![p] = NoOp]
    /\ result' = [result EXCEPT ![p] = NoResult]
    /\ ret' = [ret EXCEPT ![p] = NoResult]
    /\ calls' = [calls EXCEPT ![p] = 0]
    /\ dispatched' = [dispatched EXCEPT ![p] = "none"]
    /\ stream' = [stream EXCEPT ![p] = <<>>]
    /\ delivered' = [delivered EXCEPT ![p] = <<>>]
    /\ UNCHANGED <<cfgVars, models_cache, lockVars, models, idx, lastListed, lastCommitted,
                   committer>>

Finish(p) == FinishCore(p) /\ UNCHANGED prev

\* ------------------------------------------------------------ chat
\* Client::chat(model, context): both arguments are handed to the backend as they are
ChatStart(p) ==
    /\ pc[p] = "idle"
    /\ pc' = [pc EXCEPT ![p] = "chat_call"]
    /\ op' = [op EXCEPT ![p] = [kind |-> "chat", id |-> "none"]]
    /\ UNCHANGED <<cfgVars, models_cache, lockVars, result, models, idx, ret, calls, dispatched,
                   chatVars, histVars>>

\* provider.chat(model, context) is called on the selected backend
ChatCall(p) ==
    /\ pc[p] = "chat_call"
    /\ inner \in {"OpenAICompat", "Anthropic"}
    /\ calls' = [calls EXCEPT ![p] = @ + 1]
    /\ dispatched' = [dispatched EXCEPT ![p] = Dispatch(inner)]
    /\ pc' = [pc EXCEPT ![p] = "chat_await"]
    /\ UNCHANGED <<cfgVars, models_cache, lockVars, op, result, models, idx, ret,
                   chatVars, histVars>>

\* (mutant) the `?` left out of chat: a stream is returned whatever the
\* backend answered, and a set-up failure comes out as its first item
ChatAnswerDeferred(p, r) ==
    /\ pc[p] = "chat_await"
    /\ result' = [result EXCEPT ![p] = r]
    /\ ret' = [ret EXCEPT ![p] = Ok(<<>>)]
    /\ delivered' = [delivered EXCEPT ![p] = IF r.ok THEN @ ELSE Append(@, Retry(r))]
    /\ pc' = [pc EXCEPT ![p] = "streaming"]
    /\ UNCHANGED <<cfgVars, models_cache, lockVars, op, models, idx, calls, dispatched, stream,
                   histVars>>

\* let chat_stream = self.retry(r)?; Ok(Box::pin(chat_stream.map(..)))
ChatAnswer(p, r) ==
    /\ pc[p] = "chat_await"
    /\ result' = [result EXCEPT ![p] = r]
    /\ ret' = [ret EXCEPT ![p] = Retry(r)]
    /\ pc' = [pc EXCEPT ![p] = IF Propagates(Retry(r)) THEN "done" ELSE "streaming"]
    /\ UNCHANGED <<cfgVars, models_cache, lockVars, op, models, idx, calls, dispatched, chatVars,
                   histVars>>

\* the caller pulls, the backend's stream yields item, and the map closure
\* hands this.retry(item) on
StreamItem(p, item) ==
    /\ pc[p] = "streaming"
    /\ Len(stream[p]) < MaxStream
    /\ stream' = [stream EXCEPT ![p] = Append(@, item)]
    /\ delivered' = [delivered EXCEPT ![p] = Append(@, Retry(item))]
    /\ UNCHANGED <<cfgVars, models_cache, lockVars, pc, op, result, models, idx, ret,
                   calls, dispatched, histVars>>

\* the caller pulls and the backend's stream is over
StreamEnd(p) ==
    /\ pc[p] = "streaming"
    /\ pc' = [pc EXCEPT ![p] = "stream_end"]
    /\ UNCHANGED <<cfgVars, models_cache, lockVars, op, result, models, idx, ret, calls, dispatched,
                   chatVars, histVars>>

\* the caller drops the stream before it is over
StreamDrop(p) ==
    /\ pc[p] = "streaming"
    /\ pc' = [pc EXCEPT ![p] = "done"]
    /\ stream' = [stream EXCEPT ![p] = <<>>]
    /\ delivered' = [delivered EXCEPT ![p] = <<>>]
    /\ UNCHANGED <<cfgVars, models_cache, lockVars, op, result, models, idx, ret, calls, dispatched,
                   histVars>>

\* ------------------------------------------------------------ specification
Next ==
    \E p \in Callers :
        \/ ModelsStart(p)
        \/ \E id \in ModelIds : ModelStart(p, id)
        \/ AcquireRead(p)
        \/ ModelHit(p)
        \/ ModelMiss(p)
        \/ ListModelsCall(p)
        \/ \E r \in BackendListAnswers : ListModelsAnswer(p, r)
        \/ RequestWrite(p)
        \/ AcquireWrite(p)
        \/ ClearCache(p)
        \/ InsertModel(p)
        \/ ReleaseWrite(p)
        \/ RefreshReturn(p)
        \/ ModelReturn(p)
        \/ Finish(p)
        \/ ChatStart(p)
        \/ ChatCall(p)
        \/ \E r \in BackendChatAnswers : ChatAnswer(p, r)
        \/ \E item \in BackendItems : StreamItem(p, item)
        \/ StreamEnd(p)
        \/ StreamDrop(p)

Spec == Init /\ [][Next]_vars

\* ------------------------------------------------------------ one caller
\* A single caller making one call after another; prev remembers its last
\* call when that was a successful models(): the list returned and the cache
\* it left.
SeqFinish(p) ==
    /\ FinishCore(p)
    /\ prev' = IF op[p].kind = "models" /\ ret[p].ok
               THEN [set |-> TRUE, list |-> ret[p].val, cache |-> models_cache]
               ELSE NoPrev

NextSeq ==
    \/ ModelsStart(1)
    \/ \E id \in ModelIds : ModelStart(1, id)
    \/ AcquireRead(1)
    \/ ModelHit(1)
    \/ ModelMiss(1)
    \/ ListModelsCall(1)
    \/ \E r \in BackendListAnswers : ListModelsAnswer(1, r)
    \/ RequestWrite(1)
    \/ AcquireWrite(1)
    \/ ClearCache(1)
    \/ InsertModel(1)
    \/ ReleaseWrite(1)
    \/ RefreshReturn(1)
    \/ ModelReturn(1)
    \/ SeqFinish(1)

SpecSeq == Init /\ [][NextSeq]_vars

\* ------------------------------------------------------------ clones
\* Every caller works through its own clone of the Client.  #[derive(Clone)]
\* copies the three Arcs, so all clones act on the one models_cache; committer
\* remembers through which clone the cache was last repopulated.  These
\* callers make the cache calls only.
CloneReleaseWrite(p) == ReleaseWriteCore(p) /\ committer' = p

NextClones ==
    \E p \in Callers :
        \/ ModelsStart(p)
        \/ \E id \in ModelIds : ModelStart(p, id)
        \/ AcquireRead(p)
        \/ ModelHit(p)
        \/ ModelMiss(p)
        \/ ListModelsCall(p)
        \/ \E r \in BackendListAnswers : ListModelsAnswer(p, r)
        \/ RequestWrite(p)
        \/ AcquireWrite(p)
        \/ ClearCache(p)
        \/ InsertModel(p)
        \/ CloneReleaseWrite(p)
        \/ RefreshReturn(p)
        \/ ModelReturn(p)
        \/ Finish(p)

SpecClones == Init /\ [][NextClones]_vars

\* ------------------------------------------------------------ fair scheduling
\* The cache calls of the callers of one Client under a runtime that keeps
\* polling every task that can move, a backend that answers every call, and
\* the RwLock's FIFO queue.  The backend answers with short lists.
FairListAnswers ==
    {Ok(<<>>), Err(RawError("network"))} \cup {Ok(<<m>>) : m \in {n \in Catalogue : n.meta = "v1"}}

InitFair == Init /\ provider = "Copilot"

\* The steps a started call takes by itself: lock grants, backend answers and
\* the code in between.
Progress(p) ==
    \/ AcquireRead(p)
    \/ ModelHit(p)
    \/ ModelMiss(p)
    \/ ListModelsCall(p)
    \/ \E r \in FairListAnswers : ListModelsAnswer(p, r)
    \/ RequestWrite(p)
    \/ AcquireWrite(p)
    \/ ClearCache(p)
    \/ InsertModel(p)
    \/ ReleaseWrite(p)
    \/ RefreshReturn(p)
    \/ ModelReturn(p)

NextFair ==
    \E p \in Callers :
        \/ ModelsStart(p)
        \/ \E id \in ModelIds : ModelStart(p, id)
        \/ Progress(p)
        \/ Finish(p)

SpecFair == InitFair /\ [][NextFair]_vars /\ \A p \in Callers : WF_vars(Progress(p))

\* ============================================================ properties
IsCacheCall(p) == op[p].kind \in {"models", "model"}
AllReturned == \A p \in Callers : pc[p] \in {"idle", "done", "stream_end"}
Ids(list) == {list[i].id : i \in 1..Len(list)}

\* Some step of caller p: every step of a caller moves its position, its
\* insert loop or its stream.
StepBy(p) == pc'[p] # pc[p] \/ idx'[p] # idx[p] \/ stream'[p] # stream[p]

\* The map holds exactly the ids of the list, each entry under its own id and
\* holding a model the list returned for that id.
HoldsExactly(c, list) ==
    /\ Keys(c) = Ids(list)
    /\ \A e \in c : e.value.id = e.key /\ \E i \in 1..Len(list) : list[i] = e.value
    /\ \A e1, e2 \in c : e1.key = e2.key => e1 = e2

\* ---- C1 ----
\* C1 as claimed: once every call has returned, the cache is empty or equal to
\* the full result, keyed by model id, of the most recent successful
\* list_models call.
C1_CacheIsMostRecentListing ==
    AllReturned => (models_cache = EmptyMap \/ models_cache = lastListed)

\* C1 as amended: whenever no refresh is inside its exclusive
\* clear-and-repopulate section, the cache is empty (nothing committed yet) or
\* equal to the full result, keyed by model id, of the successful list_models
\* call whose refresh released the write guard most recently; it is never a
\* merge of two answers nor a partial copy of one.
C1_CacheIsLastCommittedListing ==
    writer = 0 => models_cache = lastCommitted

\* Two refreshes overlapped and the one holding the older answer committed last.
C1_Witness ==
    /\ AllReturned
    /\ models_cache # EmptyMap
    /\ models_cache = lastCommitted
    /\ lastListed # lastCommitted

\* ---- C2 ----
\* C2: a call whose list_models failed takes no step that changes the cache:
\* the failure sends it straight to its return with the classified error, it
\* never asks for or holds the write guard, so the cache it leaves is the cache
\* it found.
C2_FailedRefreshLeavesCache ==
    [][\A p \in Callers :
          (StepBy(p) /\ IsCacheCall(p) /\ ~result'[p].ok) =>
              /\ models_cache' = models_cache
              /\ pc'[p] = "done"
              /\ ~ret'[p].ok
              /\ writer' # p
              /\ \A i \in 1..Len(waiters') : waiters'[i] # p]_vars

\* A warm cache survived a failed refresh.
C2_Witness ==
    \E p \in Callers :
        /\ pc[p] = "done" /\ IsCacheCall(p)
        /\ ~result[p].ok /\ ~ret[p].ok
        /\ models_cache # EmptyMap /\ writer = 0

\* ---- C3 ----
\* C3: whenever a model(id) call holds its read guard, no refresh is inside the
\* clear-and-repopulate section and the cache is the complete map the last
\* finished refresh left: the reader sees the whole pre-refresh or the whole
\* post-refresh cache.
C3_ReadersSeeWholeCache ==
    \A p \in Callers :
        pc[p] = "read_held" => (writer = 0 /\ models_cache = lastCommitted)

\* A reader holds the guard over a warm cache while a refresh with a different
\* answer waits for the write guard.
C3_Witness ==
    \E p, q \in Callers :
        /\ pc[p] = "read_held" /\ pc[q] = "write_wait"
        /\ models_cache # EmptyMap
        /\ InsertAll(EmptyMap, models[q]) # models_cache

\* ---- C4 ----
\* C4: when the refresh of a models() call commits, the cache holds exactly the
\* ids of the fetched list, each mapped to a Model value of that list, and the
\* call then returns that very list without touching the cache again.
C4_CacheHoldsReturnedList ==
    [][\A p \in Callers :
          /\ (op[p].kind = "models" /\ pc[p] = "write_insert" /\ pc'[p] = "refresh_return")
                => HoldsExactly(models_cache', models[p])
          /\ (op[p].kind = "models" /\ pc[p] = "refresh_return" /\ pc'[p] = "done")
                => (ret'[p] = Ok(models[p]) /\ models_cache' = models_cache)]_vars

\* models() returned two distinct models and the cache holds both.
C4_Witness ==
    \E p \in Callers :
        /\ pc[p] = "done" /\ op[p].kind = "models" /\ ret[p].ok
        /\ Len(ret[p].val) = 2 /\ Cardinality(Ids(ret[p].val)) = 2
        /\ HoldsExactly(models_cache, ret[p].val)

\* ---- C5 ----
\* C5: a model(id) lookup that finds id in the cache returns Some of the cached
\* value, has made no list_models call, and leaves the cache as it was.
C5_HitReturnsCachedWithoutBackend ==
    [][\A p \in Callers :
          (pc[p] = "read_held" /\ StepBy(p) /\ op[p].id \in Keys(models_cache)) =>
              /\ pc'[p] = "done"
              /\ \E e \in models_cache : e.key = op[p].id /\ ret'[p] = Ok(Some(e.value))
              /\ calls'[p] = 0
              /\ models_cache' = models_cache]_vars

\* A model(id) call returned the cached model with no backend call.
C5_Witness ==
    \E p \in Callers :
        /\ pc[p] = "done" /\ op[p].kind = "model" /\ calls[p] = 0
        /\ ret[p].ok /\ ret[p].val # None
        /\ \E e \in models_cache : e.key = op[p].id /\ ret[p].val = Some(e.value)

\* ---- C6 ----
\* C6: a model(id) call makes no list_models call before its lookup misses and
\* exactly one after; when that call succeeded with a list that lacks id the
\* call returns Ok(None), and when it failed the call returns the error.
C6_MissRefreshesOnceThenNone ==
    \A p \in Callers :
        op[p].kind = "model" =>
            /\ pc[p] \in {"read_wait", "read_held", "refresh_call"} => calls[p] = 0
            /\ pc[p] \in {"refresh_await", "write_request", "write_wait", "write_clear",
                          "write_insert", "refresh_return"} => calls[p] = 1
            /\ pc[p] = "done" =>
                  \/ calls[p] = 0 /\ ret[p].ok /\ ret[p].val # None
                  \/ /\ calls[p] = 1
                     /\ ~result[p].ok => ~ret[p].ok
                     /\ (result[p].ok /\ op[p].id \notin Ids(result[p].val))
                           => ret[p] = Ok(None)

\* Over a warm cache, a lookup of an id the backend does not list cost one
\* list_models call and returned Ok(None).
C6_Witness ==
    \E p \in Callers :
        /\ pc[p] = "done" /\ op[p].kind = "model" /\ calls[p] = 1
        /\ result[p].ok /\ result[p].val # <<>>
        /\ op[p].id \notin Ids(result[p].val)
        /\ ret[p] = Ok(None)

\* ---- C7 ----
\* C7 as claimed: at the moment the refresh of a model(id) miss commits, what
\* the call is about to return (the first model of the fetched list carrying
\* id) equals the lookup of id in the freshly populated cache, for every list
\* the backend may answer with.
C7_MissReturnsFreshCacheLookup ==
    [][\A p \in Callers :
          (op[p].kind = "model" /\ pc[p] = "write_insert" /\ pc'[p] = "refresh_return")
              => Find(models[p], op[p].id) = CacheGet(models_cache', op[p].id)]_vars

\* v is Some of the first (last) model of the list carrying id, None when the
\* list has none.
IsFirstWith(list, id, v) ==
    IF id \in Ids(list)
    THEN \E i \in 1..Len(list) :
            /\ list[i].id = id /\ v = Some(list[i])
            /\ \A j \in 1..(i - 1) : list[j].id # id
    ELSE v = None
IsLastWith(list, id, v) ==
    IF id \in Ids(list)
    THEN \E i \in 1..Len(list) :
            /\ list[i].id = id /\ v = Some(list[i])
            /\ \A j \in (i + 1)..Len(list) : list[j].id # id
    ELSE v = None
Occurrences(list, id) == Cardinality({i \in 1..Len(list) : list[i].id = id})

\* C7 as amended: on a cache miss model(id) returns Some of the first model of
\* the fetched list that carries id and None when the list has none, while the
\* cache its refresh just populated maps id to the last model carrying id; so
\* the returned value is None exactly when the fresh cache has no entry for
\* id, and equals the fresh cache's entry whenever id occurs at most once in
\* the list.
C7_MissReturnsFirstOfList ==
    [][\A p \in Callers :
          op[p].kind = "model" =>
              /\ (pc[p] = "write_insert" /\ pc'[p] = "refresh_return") =>
                    LET cached == IF op[p].id \in Keys(models_cache')
                                  THEN Some((CHOOSE e \in models_cache' : e.key = op[p].id).value)
                                  ELSE None
                    IN /\ IsLastWith(models[p], op[p].id, cached)
                       /\ Occurrences(models[p], op[p].id) <= 1
                             => IsFirstWith(models[p], op[p].id, cached)
              /\ (pc[p] = "refresh_return" /\ pc'[p] = "done") =>
                    /\ ret'[p].ok
                    /\ IsFirstWith(models[p], op[p].id, ret'[p].val)]_vars

\* A miss answered with a list carrying id twice: the call returned the first
\* of the two and the cache holds the second.
C7_Witness ==
    \E p \in Callers :
        /\ pc[p] = "done" /\ op[p].kind = "model" /\ calls[p] = 1
        /\ result[p].ok /\ Len(result[p].val) = 2
        /\ result[p].val[1].id = op[p].id /\ result[p].val[2].id = op[p].id
        /\ result[p].val[1] # result[p].val[2]
        /\ ret[p] = Ok(Some(result[p].val[1]))
        /\ [key |-> op[p].id, value |-> result[p].val[2]] \in models_cache

\* ---- C8 ----
\* C8: a models() call has made no list_models call before it issues its one
\* call and exactly one from then on, whatever the cache holds; the list it
\* returns is the backend's answer, and a failed answer is returned as an
\* error.
C8_ModelsAlwaysAsksBackend ==
    \A p \in Callers :
        op[p].kind = "models" =>
            /\ pc[p] = "refresh_call" => calls[p] = 0
            /\ pc[p] # "refresh_call" => calls[p] = 1
            /\ pc[p] = "done" =>
                  /\ result[p].ok => ret[p] = Ok(result[p].val)
                  /\ ~result[p].ok => ~ret[p].ok

\* models() returned the backend's list with a repeated id, which no cache
\* content could have produced.
C8_Witness ==
    \E p \in Callers :
        /\ pc[p] = "done" /\ op[p].kind = "models" /\ calls[p] = 1
        /\ ret[p].ok /\ Len(ret[p].val) = 2 /\ Cardinality(Ids(ret[p].val)) = 1
        /\ ret[p].val[1] # ret[p].val[2]

\* ---- C9 ----
\* C9: when a lone caller's models() call returns the same list as its
\* previous call, which was a successful models() too, the cache it leaves
\* equals the cache the previous call left.
C9_ModelsTwiceSameCache ==
    (/\ pc[1] = "done" /\ op[1].kind = "models" /\ ret[1].ok
     /\ prev.set /\ prev.list = ret[1].val)
        => models_cache = prev.cache

\* Two models() calls in a row returned the same non-empty list.
C9_Witness ==
    /\ pc[1] = "done" /\ op[1].kind = "models" /\ ret[1].ok
    /\ prev.set /\ prev.list = ret[1].val /\ ret[1].val # <<>>
    /\ models_cache = prev.cache

\* ---- C10 ----
\* C10: the returned stream has handed on exactly as many items as the
\* backend's stream has yielded, in the same order: an Ok item as it is, an
\* error item as its classified form; an error item neither ends the stream
\* nor alters the items around it.
C10_StreamItemsClassifiedInOrder ==
    \A p \in Callers :
        /\ Len(delivered[p]) = Len(stream[p])
        /\ \A i \in 1..Len(stream[p]) :
              delivered[p][i] =
                  IF stream[p][i].ok THEN stream[p][i]
                  ELSE Err(IntoRetry(stream[p][i].err, retry_config))

\* Three items, the second an error: item 1 and item 3 came through as they
\* are, item 2 as a classified error, and the stream ran to its end.
C10_Witness ==
    \E p \in Callers :
        /\ pc[p] = "stream_end" /\ Len(stream[p]) = 3
        /\ stream[p][1].ok /\ ~stream[p][2].ok /\ stream[p][3].ok
        /\ delivered[p][1] = stream[p][1]
        /\ ~delivered[p][2].ok /\ delivered[p][2].err.classified
        /\ delivered[p][3] = stream[p][3]

\* ---- C11 ----
\* C11: when the backend's chat call fails while the stream is being set up,
\* chat() has returned that failure, classified by the retry classifier with
\* the Client's RetryConfig, and no stream: the call is over, the backend's
\* stream has yielded nothing and no item has been handed to the caller.
C11_FailedChatSetupReturnsNoStream ==
    \A p \in Callers :
        (op[p].kind = "chat" /\ ~result[p].ok) =>
            /\ pc[p] = "done"
            /\ ret[p] = Err(IntoRetry(result[p].err, retry_config))
            /\ ret[p].err.classified
            /\ stream[p] = <<>>
            /\ delivered[p] = <<>>

C11_Witness ==
    \E p \in Callers :
        /\ op[p].kind = "chat" /\ pc[p] = "done" /\ calls[p] = 1
        /\ result[p] = Err(RawError("network"))
        /\ ~ret[p].ok /\ ret[p].err.classified /\ ret[p].err.retryable
        /\ delivered[p] = <<>>

\* ---- C12 ----
\* C12: every error a call or a stream item hands to its caller is the retry
\* classifier's output for the failure the backend raised, computed with the
\* Client's RetryConfig and wrapped exactly once; a failed backend call always
\* makes the call return an error; and an error the caller receives is never
\* the backend's unclassified one.
C12_ErrorsClassifiedExactlyOnce ==
    \A p \in Callers :
        /\ ~result[p].ok => ~ret[p].ok
        /\ ~ret[p].ok =>
              /\ ~result[p].ok
              /\ ret[p].err = IntoRetry(result[p].err, retry_config)
              /\ ret[p].err.classified /\ ret[p].err.wraps = 1
        /\ Len(delivered[p]) <= Len(stream[p])
        /\ \A i \in 1..Len(delivered[p]) :
              ~delivered[p][i].ok =>
                  /\ ~stream[p][i].ok
                  /\ delivered[p][i].err = IntoRetry(stream[p][i].err, retry_config)
                  /\ delivered[p][i].err.classified /\ delivered[p][i].err.wraps = 1

C12_Witness ==
    \E p, q \in Callers :
        /\ op[p].kind = "model" /\ pc[p] = "done"
        /\ result[p] = Err(RawError("auth"))
        /\ ~ret[p].ok /\ ret[p].err.cause = "auth" /\ ~ret[p].err.retryable
        /\ ret[p].err.wraps = 1
        /\ op[q].kind = "chat" /\ pc[q] = "streaming"
        /\ \E i \in 1..Len(delivered[q]) :
              ~delivered[q][i].ok /\ delivered[q][i].err.retryable

\* ---- C13 ----
\* C13: the facade never retries and never swallows a failure: no call issues
\* more than one backend call (one list_models for models(), refresh_models()
\* or a model(id) miss, one chat for chat()), and once the backend has
\* answered a call with a failure that call is over after its one backend
\* call and has returned an error, not data from the cache or an empty value.
C13_OneBackendCallAndFailuresReported ==
    \A p \in Callers :
        /\ calls[p] <= 1
        /\ ~result[p].ok =>
              /\ calls[p] = 1
              /\ pc[p] = "done"
              /\ ~ret[p].ok
              /\ ret[p].val = <<>>

C13_Witness ==
    \E p \in Callers :
        /\ op[p].kind = "model" /\ pc[p] = "done" /\ calls[p] = 1
        /\ ~result[p].ok /\ ~ret[p].ok
        /\ writer = 0 /\ models_cache # EmptyMap
        /\ CacheGet(models_cache, op[p].id) = None

InnerMatchesProvider ==
    /\ provider \in {"OpenAI", "Copilot"} => inner = "OpenAICompat"
    /\ provider = "Anthropic" => inner = "Anthropic"

\* Every call that has reached the backend went to the variant held.
DispatchedToInner ==
    \A p \in Callers :
        /\ dispatched[p] \in {"none", inner}
        /\ calls[p] > 0 => dispatched[p] = inner

\* C15: the backend variant Client::new selected is the one that goes with
\* the provider's family, it never changes afterwards, and every backend call
\* of every later operation is dispatched to that same variant.
C15_BackendVariantFixedByProvider ==
    [][/\ InnerMatchesProvider /\ InnerMatchesProvider'
       /\ inner' = inner /\ provider' = provider
       /\ DispatchedToInner /\ DispatchedToInner']_vars

C15_Witness ==
    \E p, q \in Callers :
        /\ provider = "Copilot" /\ inner = "OpenAICompat"
        /\ op[p].kind = "chat" /\ pc[p] = "streaming" /\ dispatched[p] = "OpenAICompat"
        /\ op[q].kind = "models" /\ pc[q] = "done" /\ dispatched[q] = "OpenAICompat"

\* ---- C16 ----
\* C16: right after new the cache is empty and no backend call has been made;
\* as long as no refresh has committed a list_models answer the cache that
\* callers can see is empty, every model(id) lookup finds nothing whatever
\* the id, and a model(id) call that is over went through the miss path.
C16_CacheEmptyUntilFirstCommit ==
    /\ (\A p \in Callers : pc[p] = "idle") =>
           \A p \in Callers : calls[p] = 0 /\ dispatched[p] = "none"
    /\ committer = 0 =>
          /\ lastCommitted = EmptyMap
          /\ writer = 0 => models_cache = EmptyMap
          /\ \A q \in Callers :
                /\ pc[q] = "read_held" =>
                      \A id \in ModelIds : CacheGet(models_cache, id) = None
                /\ (op[q].kind = "model" /\ pc[q] = "done") =>
                      calls[q] = 1 /\ ~ret[q].ok

C16_Witness ==
    \E p, q \in Callers :
        /\ committer = 0 /\ models_cache = EmptyMap
        /\ op[p].kind = "models" /\ pc[p] = "write_wait" /\ models[p] # <<>>
        /\ op[q].kind = "model" /\ pc[q] = "refresh_call"
        /\ op[q].id \in Ids(models[p])

\* ---- C17 ----
\* A refresh that is past its backend call: models() or a model(id) miss
\* waiting for the answer, committing it, or about to return it.
InRefresh(p) ==
    pc[p] \in {"refresh_await", "write_request", "write_wait", "write_clear",
               "write_insert", "refresh_return"}

\* C17: concurrent refreshes are not coalesced: every refresh in progress has
\* issued a list_models call of its own; and whenever no refresh is inside
\* its write section the cache is exactly the answer of the caller that
\* released the write guard last, in whatever order the backend calls were
\* issued and answered.
C17_LastCommitWins ==
    \A p \in Callers :
        /\ InRefresh(p) => calls[p] = 1
        /\ (/\ committer = p /\ writer = 0
            /\ pc[p] \in {"refresh_return", "done"}
            /\ calls[p] = 1 /\ result[p].ok)
           => models_cache = InsertAll(EmptyMap, result[p].val)

C17_Witness ==
    \E p, q \in Callers :
        /\ p # q /\ committer = p /\ writer = 0
        /\ op[p].kind = "model" /\ op[q].kind = "models"
        /\ pc[p] = "refresh_return" /\ pc[q] = "refresh_return"
        /\ calls[p] = 1 /\ calls[q] = 1
        /\ result[p].ok /\ result[q].ok
        /\ lastListed = InsertAll(EmptyMap, result[q].val)
        /\ models_cache = InsertAll(EmptyMap, result[p].val)
        /\ models_cache # lastListed

\* ---- C18 ----
\* The caller is in refresh_models before its write block: about to call
\* list_models, waiting for its answer, or holding the answer.
ListModelsInFlight(p) == pc[p] \in {"refresh_call", "refresh_await", "write_request"}

InWaiters(p) == \E i \in 1..Len(waiters) : waiters[i] = p

WritingRefresh(p) ==
    /\ writer = p
    /\ pc[p] \in {"write_clear", "write_insert"}
    /\ IsCacheCall(p)
    /\ calls[p] = 1 /\ result[p].ok

\* C19: every entry of the cache is filed under the id of the model it holds;
\* an entry enters the cache only in the insert loop of a refresh whose
\* list_models call succeeded, and is a model of that answer; the cache
\* changes in no other step than the clear and the inserts of such a refresh:
\* no step of chat() or of its stream and no step of the lookup of model(id)
\* changes it.
C19_OnlySuccessfulRefreshWritesCache ==
    [][/\ \A e \in models_cache' : e.key = e.value.id
       /\ \A e \in models_cache' \ models_cache :
             \E p \in Callers :
                 /\ WritingRefresh(p) /\ pc[p] = "write_insert" /\ StepBy(p)
                 /\ \E i \in 1..Len(result[p].val) : result[p].val[i] = e.value
       /\ models_cache' # models_cache =>
             \E p \in Callers : WritingRefresh(p) /\ StepBy(p)
       /\ \A p \in Callers :
             (StepBy(p) /\ (op[p].kind = "chat" \/ pc[p] \in {"read_wait", "read_held"}))
                 => models_cache' = models_cache]_vars

C19_Witness ==
    \E p, q \in Callers :
        /\ op[p].kind = "chat" /\ pc[p] = "streaming" /\ Len(delivered[p]) = 2
        /\ op[q].kind = "model" /\ pc[q] = "done" /\ calls[q] = 0 /\ ret[q].val # None
        /\ writer = 0
        /\ Cardinality(models_cache) = 2
        /\ \A e \in models_cache : e.key = e.value.id

\* ---- C20 ----
\* No caller waits for a guard of the cache lock while it holds one.
NoHoldAndWait ==
    \A p \in Callers : InWaiters(p) => (p \notin readers /\ writer # p)

\* C20: the cache lock cannot deadlock: a caller that waits for a guard holds
\* none (model(id) has dropped its read guard before its miss path asks for
\* the write guard), and under fair scheduling, the lock's FIFO queue and a
\* backend that answers every call, every models() and model(id) call that
\* was started returns.
C20_EveryCallReturns ==
    /\ []NoHoldAndWait
    /\ \A p \in Callers : (pc[p] # "idle") ~> (pc[p] = "done")

C20_Witness ==
    \E p, q \in Callers :
        /\ op[p].kind = "model" /\ pc[p] = "write_wait" /\ Head(waiters) = p
        /\ op[q].kind = "model" /\ pc[q] = "read_held" /\ q \in readers
        /\ ~ENABLED AcquireWrite(p)
====
